---- MODULE Spec2Model ----
(***************************************************************************)
(* State-machine model of the two scripts of the repository:               *)
(*   scripts/generate-exhibits.py              convert_matlab, dump, ...    *)
(*   scripts/check-subnetwork-connectedness.py check_connected             *)
(*                                                                         *)
(* Numbers.  A float is held as an exact extended rational <<n, d>> with   *)
(* d >= 0 in lowest terms: <<1, 0>> is +inf, <<-1, 0>> is -inf and         *)
(* <<0, 0>> is NaN.  An escape radius r >= 0 is held as r * r (the         *)
(* estimate 2*sqrt(n)/smin^2 is irrational for most n), which keeps the    *)
(* order and so the outcome of min().  The matrices of the input files     *)
(* are chosen so that every singular value and every norm the run needs    *)
(* is rational: the rows or the columns of every matrix that reaches the   *)
(* SVD are mutually orthogonal.                                            *)
(*                                                                         *)
(* Arguments.  The arguments of a call are bound in the action that        *)
(* models the first section of the function able to read them (the         *)
(* function's own "sanitize inputs", "read matrices" and "write matrices"  *)
(* sections); a behaviour is the run of the call with those values.        *)
(***************************************************************************)
EXTENDS Integers, Sequences, FiniteSets, TLC

\* ------------------------------------------------------------------ bounds

\* Longest list of requested variable names (--variable-name is repeatable).
MaxNames == 2

\* --------------------------------------------------------------- optionals

\* Python's None and a present value of an optional argument.
None == <<>>
Some(x) == <<x>>
Get(o) == o[1]

\* ----------------------------------------------------------------- numbers

Abs(n) == IF n < 0 THEN -n ELSE n
Sign(n) == IF n < 0 THEN -1 ELSE IF n = 0 THEN 0 ELSE 1
MinInt(a, b) == IF a < b THEN a ELSE b

RECURSIVE Gcd(_, _)
Gcd(a, b) == IF b = 0 THEN a ELSE Gcd(b, a % b)

\* The float n/d.  x/0 is +-inf and 0/0 is NaN, as numpy's float64 division.
Rat(n, d) ==
    IF d = 0 THEN <<Sign(n), 0>>
    ELSE LET g == Gcd(Abs(n), Abs(d))
         IN  <<Sign(d) * (n \div g), Abs(d) \div g>>

R(n) == <<n, 1>>
Inf == <<1, 0>>
NaN == <<0, 0>>
IsNaN(x) == x = NaN
IsInfinite(x) == x[2] = 0 /\ x[1] # 0

\* IEEE comparison: false as soon as one side is NaN.
RLt(x, y) ==
    /\ ~IsNaN(x)
    /\ ~IsNaN(y)
    /\ IF x[2] = 0 /\ y[2] = 0 THEN x[1] < y[1] ELSE x[1] * y[2] < y[1] * x[2]
RLe(x, y) == ~IsNaN(x) /\ ~IsNaN(y) /\ ~RLt(y, x)
RGt(x, y) == RLt(y, x)

RAdd(x, y) ==
    IF IsNaN(x) \/ IsNaN(y) THEN NaN
    ELSE IF x[2] = 0 /\ y[2] = 0 THEN (IF x[1] = y[1] THEN x ELSE NaN)
    ELSE IF x[2] = 0 THEN x
    ELSE IF y[2] = 0 THEN y
    ELSE Rat(x[1] * y[2] + y[1] * x[2], x[2] * y[2])
RMul(x, y) ==
    IF IsNaN(x) \/ IsNaN(y) THEN NaN
    ELSE IF x[2] = 0 \/ y[2] = 0 THEN <<Sign(x[1]) * Sign(y[1]), 0>>
    ELSE Rat(x[1] * y[1], x[2] * y[2])
RDiv(x, y) ==
    IF IsNaN(x) \/ IsNaN(y) THEN NaN
    ELSE IF x[2] = 0 /\ y[2] = 0 THEN NaN
    ELSE IF y[2] = 0 THEN R(0)
    ELSE IF x[2] = 0 THEN <<x[1] * (IF y[1] < 0 THEN -1 ELSE 1), 0>>
    ELSE IF y[1] = 0 THEN <<Sign(x[1]), 0>>
    ELSE Rat(x[1] * y[2] * Sign(y[1]), x[2] * Abs(y[1]))
RAbs(x) == <<Abs(x[1]), x[2]>>

\* numpy.maximum / numpy.minimum: NaN if either operand is NaN.
NpMaximum(x, y) == IF IsNaN(x) \/ IsNaN(y) THEN NaN ELSE IF RLt(x, y) THEN y ELSE x
NpMinimum(x, y) == IF IsNaN(x) \/ IsNaN(y) THEN NaN ELSE IF RLt(y, x) THEN y ELSE x

\* Python's builtin min(a, b): b if b < a, else a.
PyMin(a, b) == IF RLt(b, a) THEN b ELSE a

\* The root of a perfect square.
ISqrt(n) == CHOOSE k \in 0..n : k * k = n
RSqrt(x) == IF x[2] = 0 THEN x ELSE <<ISqrt(x[1]), ISqrt(x[2])>>

RECURSIVE SumSeq(_)
SumSeq(s) == IF s = <<>> THEN R(0) ELSE RAdd(Head(s), SumSeq(Tail(s)))

RECURSIVE MaxSeq(_)
MaxSeq(s) == IF Len(s) = 1 THEN s[1] ELSE NpMaximum(s[1], MaxSeq(Tail(s)))

RECURSIVE MinSeq(_)
MinSeq(s) == IF Len(s) = 1 THEN s[1] ELSE NpMinimum(s[1], MinSeq(Tail(s)))

\* ---------------------------------------------------------------- matrices

\* A rank-2 array is its sequence of rows; a rank-3 array a sequence of those.
NRows(m) == Len(m)
NCols(m) == Len(m[1])
Shape(m) == <<NRows(m), NCols(m)>>
Shape3(t) == <<Len(t), Len(t[1]), Len(t[1][1])>>

\* mat.T
Transpose(m) == [c \in 1..NCols(m) |-> [r \in 1..NRows(m) |-> m[r][c]]]
\* mat[i] and mat[..., i] of a rank-3 array (i counted from 1)
SliceFirst(t, i) == t[i]
SliceLast(t, k) == [a \in 1..Len(t) |-> [b \in 1..Len(t[1]) |-> t[a][b][k]]]

MapMat(m, F(_)) == [r \in 1..NRows(m) |-> [c \in 1..NCols(m) |-> F(m[r][c])]]
Flatten(m) == [k \in 1..(NRows(m) * NCols(m)) |->
                 m[((k - 1) \div NCols(m)) + 1][((k - 1) % NCols(m)) + 1]]
HasNaN(m) == \E r \in 1..NRows(m) : \E c \in 1..NCols(m) : IsNaN(m[r][c])

\* A clip that zeroes what lies below the floor instead of raising it to the floor.
NpClipZeroing(m, lo, hi) ==
    LET F(x) == IF RLt(x, lo) THEN R(0) ELSE NpMinimum(x, hi) IN MapMat(m, F)
\* np.clip(mat, a_min=lo, a_max=hi) == minimum(maximum(mat, lo), hi)
NpClip(m, lo, hi) ==
    LET F(x) == NpMinimum(NpMaximum(x, lo), hi) IN MapMat(m, F)
\* np.abs(mat)
NpAbs(m) == MapMat(m, RAbs)
\* mat / s for a scalar s
DivScalar(m, s) == LET F(x) == RDiv(x, s) IN MapMat(m, F)

\* ---------------------------------------------------- singular values, norms

RowDot(m, r1, r2) == SumSeq([c \in 1..NCols(m) |-> RMul(m[r1][c], m[r2][c])])
ColDot(m, c1, c2) == SumSeq([r \in 1..NRows(m) |-> RMul(m[r][c1], m[r][c2])])
RowsOrthogonal(m) ==
    \A r1, r2 \in 1..NRows(m) : r1 # r2 => RowDot(m, r1, r2) = R(0)
ColsOrthogonal(m) ==
    \A c1, c2 \in 1..NCols(m) : c1 # c2 => ColDot(m, c1, c2) = R(0)
\* The matrices whose singular values the model computes exactly.
SvdExact(m) == ~HasNaN(m) /\ (RowsOrthogonal(m) \/ ColsOrthogonal(m))

\* np.linalg.svdvals(mat) squared, in some order: min(rows, cols) values.  With
\* orthogonal columns (rows) the nonzero ones are the squared column (row)
\* norms and the others are 0.
SigmaSq(m) ==
    LET k == MinInt(NRows(m), NCols(m))
        n2 == IF ColsOrthogonal(m)
              THEN [c \in 1..NCols(m) |-> ColDot(m, c, c)]
              ELSE [r \in 1..NRows(m) |-> RowDot(m, r, r)]
        nz == SelectSeq(n2, LAMBDA x : x # R(0))
    IN  IF ~SvdExact(m) THEN CHOOSE s \in {} : TRUE
        ELSE nz \o [j \in 1..(k - Len(nz)) |-> R(0)]

\* la.norm(mat, ord), and np.max(np.abs(mat)) for "max".  The norms "2" and
\* "nuc" go through the SVD.
ColAbsSums(m) == [c \in 1..NCols(m) |-> SumSeq([r \in 1..NRows(m) |-> RAbs(m[r][c])])]
RowAbsSums(m) == [r \in 1..NRows(m) |-> SumSeq([c \in 1..NCols(m) |-> RAbs(m[r][c])])]
NormModes == {"1", "2", "inf", "fro", "nuc", "max"}
SvdNorms == {"2", "nuc"}
Norm(m, ord) ==
    CASE ord = "1"   -> MaxSeq(ColAbsSums(m))
      [] ord = "2"   -> RSqrt(MaxSeq(SigmaSq(m)))
      [] ord = "inf" -> MaxSeq(RowAbsSums(m))
      [] ord = "fro" -> RSqrt(SumSeq(Flatten(MapMat(m, LAMBDA x : RMul(x, x)))))
      [] ord = "nuc" -> SumSeq([j \in 1..Len(SigmaSq(m)) |-> RSqrt(SigmaSq(m)[j])])
      [] ord = "max" -> MaxSeq(Flatten(NpAbs(m)))

\* estimate_escape_radius(mat) = 2 sqrt(n) / min(sigma)^2, held as its square
\* 4 n / (min(sigma)^2)^2.
estimate_escape_radius(m) ==
    LET n == NRows(m)
        smin2 == MinSeq(SigmaSq(m))
    IN  RDiv(R(4 * n), RMul(smin2, smin2))

\* serde_matrix_format(mat): the entries of mat.T row by row, each paired with
\* the imaginary part 0.0, then the shape.
serde_matrix_format(m) ==
    <<[k \in 1..(NRows(m) * NCols(m)) |-> <<Flatten(Transpose(m))[k], R(0)>>],
      NRows(m), NCols(m)>>

\* ------------------------------------------------------- the input .mat file

Z2(x, y) == <<R(x), R(y)>>
\* "A": one 2 x 3 matrix.
DataA == <<<<R(-5), R(0), R(0)>>, <<R(0), R(12), R(0)>>>>
\* "matrices": a (3, 4, 4) tensor; entry (i, i, i) is Diag3[i], the others are 0.
Diag3 == <<2, -1, 3>>
DataMatrices ==
    [a \in 1..3 |-> [b \in 1..4 |-> [c \in 1..4 |->
        IF a = b /\ b = c THEN R(Diag3[a]) ELSE R(0)]]]
\* "stack": a (10, 1, 2) tensor, ten 1 x 2 matrices by default.
DataStack ==
    [a \in 1..10 |-> <<CASE a = 1 -> Z2(3, 4)
                         [] a = 2 -> Z2(4, -3)
                         [] OTHER -> Z2(0, 0)>>]

NdArray(ndim, data) == [kind |-> "ndarray", ndim |-> ndim, data |-> data]
\* What scipy.io.loadmat returns for the input file: float64 arrays under the
\* file's variable names, and loadmat's own entries, which are no arrays.
MatFile ==
    [n \in {"__header__", "A", "matrices", "stack", "v"} |->
        CASE n = "__header__" -> [kind |-> "bytes"]
          [] n = "A"          -> NdArray(2, DataA)
          [] n = "matrices"   -> NdArray(3, DataMatrices)
          [] n = "stack"      -> NdArray(3, DataStack)
          [] n = "v"          -> NdArray(1, <<R(1), R(2), R(3)>>)]

\* The names a caller may ask for: those of the file and one it lacks.
VarNames == DOMAIN MatFile \cup {"nope"}
SeqsUpTo(S, n) == UNION {[1..k -> S] : k \in 0..n}
NameLists == SeqsUpTo(VarNames, MaxNames)

DEFAULT_UPPER_LEFT == <<Rat(-41, 4), Rat(17, 4)>>
DEFAULT_LOWER_RIGHT == <<Rat(15, 2), Rat(-15, 2)>>

\* The argument values the model draws from.
BoundingBoxes ==
    { <<None, None>>,
      <<Some(Z2(-2, 2)), Some(Z2(2, -2))>>,
      <<Some(Z2(5, 0)), Some(Z2(0, 0))>>,
      <<Some(Z2(0, 0)), Some(Z2(5, 5))>>,
      <<None, Some(Z2(8, 6))>> }
Ceilings == {None, Some(R(-1)), Some(R(0)), Some(R(2))}
Clips == {None, Some(Z2(0, 9))}
Normalizations == {None} \cup {Some(o) : o \in NormModes \cup {"bogus"}}

\* ---------------------------------------------------------------- file names

Digits == <<"0", "1", "2", "3", "4", "5", "6", "7", "8", "9">>
\* str(n) for n >= 0, as its sequence of characters
RECURSIVE Str(_)
Str(n) == IF n < 10 THEN <<Digits[n + 1]>> ELSE Str(n \div 10) \o <<Digits[(n % 10) + 1]>>
\* f"{i:0{width}}"
ZeroPad(i, width) ==
    [j \in 1..(width - Len(Str(i))) |-> "0"] \o Str(i)
\* An output file is named by what follows "{outfile.stem}-" in its stem.
SuffixAvg == <<"a", "v", "g">>

Stale == [kind |-> "stale"]
Truncated == [kind |-> "truncated"]
\* The file systems a run may start on: which output files exist already.
ExistingFiles == { <<>>, [f \in {<<"0">>, SuffixAvg} |-> Stale] }

VARIABLES
    pc,        \* where the run is: start, load, read, write, returned, raised
    args,      \* the arguments bound so far
    files,     \* the output directory: file name |-> content
    files0,    \* the output directory as the run found it
    result,    \* what loadmat returned (convert_matlab's result, check_connected's contents)
    matrices,  \* the extracted matrices: views into result
    name_idx,  \* position of the loop over mat_variable_names (from 1)
    ret,       \* the status accumulated so far
    i,         \* enumerate() index of the loop over matrices (from 0)
    mat_avg,   \* the accumulator: the int 0, then an array
    exc,       \* the exception that ended the run, if one did
    log        \* what was logged, in order

vars == <<pc, args, files, files0, result, matrices, name_idx, ret, i, mat_avg, exc, log>>

\* The int 0 that mat_avg starts as.
ScalarZero == <<>>
NoResult == <<>>

Bound(a) == a \in DOMAIN args
\* The locals of the same names, after the "is None" defaults.
mat_variable_names ==
    IF args.mat_variable_names = None THEN <<>> ELSE Get(args.mat_variable_names)
upper_left ==
    IF args.upper_left = None THEN DEFAULT_UPPER_LEFT ELSE Get(args.upper_left)
lower_right ==
    IF args.lower_right = None THEN DEFAULT_LOWER_RIGHT ELSE Get(args.lower_right)

Log(level, what) == log' = Append(log, <<level, what>>)

Init ==
    /\ pc = "start"
    /\ args = <<>>
    /\ files \in ExistingFiles
    /\ files0 = files
    /\ result = NoResult
    /\ matrices = <<>>
    /\ name_idx = 1
    /\ ret = 0
    /\ i = 0
    /\ mat_avg = ScalarZero
    /\ exc = None
    /\ log = <<>>

\* ------------------------------------------------------------ convert_matlab

\* The exceptions a run can end with, each with the line that raises it.
Raised(type, line) == Some(<<type, line>>)

\* A sanitizing that rejects only a negative ceiling ("<" for "<=").
SanitizeOutcomeStrict(a) ==
    LET ul == IF a.upper_left = None THEN DEFAULT_UPPER_LEFT ELSE Get(a.upper_left)
        lr == IF a.lower_right = None THEN DEFAULT_LOWER_RIGHT ELSE Get(a.lower_right)
    IN  IF ~a.filename_exists THEN "no_file"
        ELSE IF RGt(ul[1], lr[1]) THEN "bad_x"
        ELSE IF RLt(ul[2], lr[2]) THEN "bad_y"
        ELSE IF a.max_escape_radius = None THEN "TypeError"
        ELSE IF RLt(Get(a.max_escape_radius), R(0)) THEN "bad_radius"
        ELSE "ok"

\* How the "sanitize inputs" section ends for the arguments a.
SanitizeOutcome(a) ==
    LET ul == IF a.upper_left = None THEN DEFAULT_UPPER_LEFT ELSE Get(a.upper_left)
        lr == IF a.lower_right = None THEN DEFAULT_LOWER_RIGHT ELSE Get(a.lower_right)
    IN  IF ~a.filename_exists THEN "no_file"
        ELSE IF RGt(ul[1], lr[1]) THEN "bad_x"
        ELSE IF RLt(ul[2], lr[2]) THEN "bad_y"
        ELSE IF a.max_escape_radius = None THEN "TypeError"
        ELSE IF RLe(Get(a.max_escape_radius), R(0)) THEN "bad_radius"
        ELSE "ok"

Sanitize ==
    /\ pc = "start"
    /\ \E e \in BOOLEAN, n \in {None} \cup {Some(l) : l \in NameLists},
          bb \in BoundingBoxes, r \in Ceilings :
         LET a == [ filename_exists |-> e, mat_variable_names |-> n,
                    upper_left |-> bb[1], lower_right |-> bb[2],
                    max_escape_radius |-> r ]
             o == SanitizeOutcome(a)
         IN  /\ args' = a
             /\ CASE o = "ok" ->
                      /\ pc' = "load"
                      /\ UNCHANGED <<ret, exc, log>>
                  [] o = "TypeError" ->
                      /\ pc' = "raised"
                      /\ exc' = Raised("TypeError", 158)
                      /\ UNCHANGED <<ret, log>>
                  [] OTHER ->
                      /\ pc' = "returned"
                      /\ ret' = 1
                      /\ Log("error", o)
                      /\ UNCHANGED exc
    /\ UNCHANGED <<files, files0, result, matrices, name_idx, i, mat_avg>>

LoadMat ==
    /\ pc = "load"
    /\ \E t \in BOOLEAN : args' = args @@ [transpose |-> t]
    /\ result' = MatFile
    /\ ret' = 0
    /\ matrices' = <<>>
    /\ name_idx' = 1
    /\ pc' = "read"
    /\ UNCHANGED <<files, files0, i, mat_avg, exc, log>>

View(name, axis, idx) == [name |-> name, axis |-> axis, idx |-> idx]
\* The value of a view: the array the Python name is bound to.
ReadView(res, v) ==
    LET d == res[v.name].data
    IN  CASE v.axis = "whole" -> d
          [] v.axis = "T"     -> Transpose(d)
          [] v.axis = "first" -> SliceFirst(d, v.idx)
          [] v.axis = "last"  -> SliceLast(d, v.idx)
\* An in-place store through a view: the container after it.
WriteView(res, v, m) ==
    LET d == res[v.name].data
        nd == CASE v.axis = "whole" -> m
                [] v.axis = "T"     -> Transpose(m)
                [] v.axis = "first" -> [d EXCEPT ![v.idx] = m]
                [] v.axis = "last"  ->
                     [a \in 1..Len(d) |-> [b \in 1..Len(d[1]) |->
                        [c \in 1..Len(d[1][1]) |->
                            IF c = v.idx THEN m[a][b] ELSE d[a][b][c]]]]
    IN  [res EXCEPT ![v.name].data = nd]

\* An extraction with the two branches of "if transpose" exchanged.
NewMatricesExchanged(name, mat, transpose) ==
    IF mat.ndim = 2
    THEN <<View(name, IF transpose THEN "T" ELSE "whole", 1)>>
    ELSE IF transpose
         THEN [k \in 1..Shape3(mat.data)[1] |-> View(name, "first", k)]
         ELSE [k \in 1..Shape3(mat.data)[3] |-> View(name, "last", k)]

\* new_matrices for one ndarray (lines 179-189)
NewMatrices(name, mat, transpose) ==
    IF mat.ndim = 2
    THEN <<View(name, IF transpose THEN "T" ELSE "whole", 1)>>
    ELSE IF transpose
         THEN [k \in 1..Shape3(mat.data)[3] |-> View(name, "last", k)]
         ELSE [k \in 1..Shape3(mat.data)[1] |-> View(name, "first", k)]

\* One turn of the loop over mat_variable_names.
ReadVariable ==
    /\ pc = "read"
    /\ name_idx <= Len(mat_variable_names)
    /\ LET name == mat_variable_names[name_idx]
       IN  IF name \notin DOMAIN result
           THEN /\ pc' = "raised"
                /\ exc' = Raised("KeyError", 173)
                /\ UNCHANGED <<matrices, name_idx, ret, log>>
           ELSE LET mat == result[name]
                IN  /\ name_idx' = name_idx + 1
                    /\ UNCHANGED <<pc, exc>>
                    /\ IF mat.kind # "ndarray"
                       THEN /\ ret' = 1
                            /\ Log("error", "not_ndarray")
                            /\ UNCHANGED matrices
                       ELSE IF mat.ndim \in {2, 3}
                       THEN /\ matrices' = matrices \o NewMatrices(name, mat, args.transpose)
                            /\ Log("info", "read")
                            /\ UNCHANGED ret
                       ELSE /\ ret' = 1
                            /\ Log("error", "unsupported_shape")
                            /\ UNCHANGED matrices
    /\ UNCHANGED <<args, files, files0, result, i, mat_avg>>

\* The end of the "read matrices" section (lines 198-207): nothing extracted
\* returns the status; otherwise the loop over the matrices starts.
CheckEmpty ==
    /\ pc = "read"
    /\ name_idx > Len(mat_variable_names)
    /\ \E c \in Clips, ab \in BOOLEAN, nz \in Normalizations,
          avg \in BOOLEAN, ow \in BOOLEAN :
         args' = args @@ [ clip |-> c, absolute |-> ab, normalize |-> nz,
                           include_average |-> avg, overwrite |-> ow ]
    /\ IF matrices = <<>>
       THEN /\ pc' = "returned"
            /\ Log("warning", "no_matrices")
       ELSE /\ pc' = "write"
            /\ UNCHANGED log
    /\ mat_avg' = ScalarZero
    /\ i' = 0
    /\ UNCHANGED <<files, files0, result, matrices, name_idx, ret, exc>>

\* width = len(str(len(matrices)))
Width(ms) == Len(Str(Len(ms)))

\* A transformation that skips an unknown norm instead of raising.
TransformOutcomesLenient(res, v, a) ==
    LET m0 == ReadView(res, v)
        m1 == IF a.clip # None
              THEN NpClip(m0, Get(a.clip)[1], Get(a.clip)[2]) ELSE m0
        m2 == IF a.absolute THEN NpAbs(m1) ELSE m1
        aliased == a.clip = None /\ ~a.absolute
        Divided(norm) ==
            LET m3 == DivScalar(m2, norm)
            IN  [ exc |-> None, mat |-> m3,
                  result |-> IF aliased THEN WriteView(res, v, m3) ELSE res ]
    IN  IF a.normalize = None \/ Get(a.normalize) \notin NormModes
        THEN {[exc |-> None, mat |-> m2, result |-> res]}
        ELSE IF Get(a.normalize) \in SvdNorms /\ HasNaN(m2)
        THEN {[exc |-> Raised("LinAlgError", IF Get(a.normalize) = "2" THEN 221 ELSE 227), mat |-> m2, result |-> res],
              Divided(NaN)}
        ELSE {Divided(Norm(m2, Get(a.normalize)))}

\* Lines 209-231 for the matrix behind view v: the outcomes [exc, mat, result],
\* mat being the value of mat_i and result the container afterwards.  np.clip
\* and np.abs return new arrays; "mat_i /= norm" divides in place, in whatever
\* array mat_i is then bound to.  An SVD of an array holding NaN either fails
\* to converge (LinAlgError) or yields NaN, depending on the LAPACK build.
TransformOutcomes(res, v, a) ==
    LET m0 == ReadView(res, v)
        m1 == IF a.clip # None
              THEN NpClip(m0, Get(a.clip)[1], Get(a.clip)[2]) ELSE m0
        m2 == IF a.absolute THEN NpAbs(m1) ELSE m1
        aliased == a.clip = None /\ ~a.absolute
        Divided(norm) ==
            LET m3 == DivScalar(m2, norm)
            IN  [ exc |-> None, mat |-> m3,
                  result |-> IF aliased THEN WriteView(res, v, m3) ELSE res ]
    IN  IF a.normalize = None
        THEN {[exc |-> None, mat |-> m2, result |-> res]}
        ELSE IF Get(a.normalize) \notin NormModes
        THEN {[exc |-> Raised("ValueError", 231), mat |-> m2, result |-> res]}
        ELSE IF Get(a.normalize) \in SvdNorms /\ HasNaN(m2)
        THEN {[exc |-> Raised("LinAlgError", IF Get(a.normalize) = "2" THEN 221 ELSE 227), mat |-> m2, result |-> res],
              Divided(NaN)}
        ELSE {Divided(Norm(m2, Get(a.normalize)))}

\* "mat_avg += mat_i" (line 233): the int 0 gives way to a new array; an array
\* is added to in place, mat_i broadcast to its shape, which numpy refuses
\* (ValueError) when mat_i does not broadcast to the shape of mat_avg.
BroadcastsTo(small, big) ==
    /\ small[1] \in {1, big[1]}
    /\ small[2] \in {1, big[2]}
Accumulate(avg, m) ==
    IF avg = ScalarZero THEN [exc |-> None, mat_avg |-> m]
    ELSE IF ~BroadcastsTo(Shape(m), Shape(avg))
    THEN [exc |-> Raised("ValueError", 233), mat_avg |-> avg]
    ELSE [ exc |-> None,
           mat_avg |-> [r \in 1..NRows(avg) |-> [c \in 1..NCols(avg) |->
               RAdd(avg[r][c], m[IF NRows(m) = 1 THEN 1 ELSE r]
                                [IF NCols(m) = 1 THEN 1 ELSE c])]] ]

\* dump(outfile, mat, upper_left, lower_right, max_escape_radius=, overwrite=)
\* on the directory fs: the outcomes [files, status, exc].  The file is opened
\* for writing, and so created or truncated, before the estimate is computed.
DumpOutcomes(fs, outfile, mat, ul, lr, max_escape_radius, overwrite) ==
    LET opened == [f \in DOMAIN fs \cup {outfile} |->
                     IF f = outfile THEN Truncated ELSE fs[f]]
        max == IF max_escape_radius = None THEN Inf
               ELSE RMul(Get(max_escape_radius), Get(max_escape_radius))
        Written(escape_radius) ==
            [ files |-> [opened EXCEPT ![outfile] =
                           [ kind |-> "exhibit",
                             mat |-> serde_matrix_format(mat),
                             escape_radius |-> PyMin(escape_radius, max),
                             upper_left |-> ul,
                             lower_right |-> lr ]],
              status |-> 0, exc |-> None ]
    IN  IF ~overwrite /\ outfile \in DOMAIN fs
        THEN {[files |-> fs, status |-> 1, exc |-> None]}
        ELSE IF HasNaN(mat)
        THEN {[files |-> opened, status |-> 0, exc |-> Raised("LinAlgError", 62)],
              Written(NaN)}
        ELSE {Written(estimate_escape_radius(mat))}

\* ret |= status, for statuses in {0, 1}
BitOr(a, b) == IF a = 1 \/ b = 1 THEN 1 ELSE 0

\* One turn of the loop over the matrices (lines 208-242).
WriteMatrix ==
    /\ pc = "write"
    /\ i < Len(matrices)
    /\ \E t \in TransformOutcomes(result, matrices[i + 1], args) :
         LET acc == Accumulate(mat_avg, t.mat)
             outfile_i == ZeroPad(i, Width(matrices))
         IN  /\ result' = t.result
             /\ IF t.exc # None
                THEN /\ pc' = "raised"
                     /\ exc' = t.exc
                     /\ UNCHANGED <<files, ret, i, mat_avg, log>>
                ELSE IF acc.exc # None
                THEN /\ pc' = "raised"
                     /\ exc' = acc.exc
                     /\ UNCHANGED <<files, ret, i, mat_avg, log>>
                ELSE \E d \in DumpOutcomes(files, outfile_i, t.mat, upper_left,
                                           lower_right, args.max_escape_radius,
                                           args.overwrite) :
                       /\ mat_avg' = acc.mat_avg
                       /\ files' = d.files
                       /\ IF d.exc # None
                          THEN /\ pc' = "raised"
                               /\ exc' = d.exc
                               /\ UNCHANGED <<ret, i, log>>
                          ELSE /\ ret' = BitOr(ret, d.status)
                               /\ i' = i + 1
                               /\ log' = IF d.status = 1
                                         THEN Append(log, <<"error", "exists">>)
                                         ELSE Append(log, <<"info", "saved">>)
                               /\ UNCHANGED <<pc, exc>>
    /\ UNCHANGED <<args, files0, matrices, name_idx>>

\* After the loop (lines 244-257): the average record if asked for, and the
\* return of the status.
Average ==
    /\ pc = "write"
    /\ i = Len(matrices)
    /\ IF args.include_average
       THEN \E d \in DumpOutcomes(files, SuffixAvg,
                                  DivScalar(mat_avg, R(Len(matrices))),
                                  upper_left, lower_right,
                                  args.max_escape_radius, args.overwrite) :
              /\ files' = d.files
              /\ IF d.exc # None
                 THEN /\ pc' = "raised"
                      /\ exc' = d.exc
                      /\ UNCHANGED <<ret, log>>
                 ELSE /\ pc' = "returned"
                      /\ ret' = BitOr(ret, d.status)
                      /\ log' = IF d.status = 1
                                THEN Append(log, <<"error", "exists">>)
                                ELSE Append(log, <<"info", "saved">>)
                      /\ UNCHANGED exc
       ELSE /\ pc' = "returned"
            /\ UNCHANGED <<files, ret, exc, log>>
    /\ UNCHANGED <<args, files0, result, matrices, name_idx, i, mat_avg>>

\* ----------------------------------------------------------- check_connected

\* The input file of the connectivity checker.  "W" is a (4, 4, 3) tensor of
\* three symmetric adjacency matrices W[..., k]: k = 1 is complete with positive
\* weights, k = 2 is complete with negative weights and self-loops, k = 3 is the
\* path 1 - 2 - 3 beside the isolated node 4.
Weight(a, b, k) ==
    CASE k = 1 -> IF a = b THEN 0 ELSE 1 + ((a + b) % 3)
      [] k = 2 -> IF a = b THEN 5 ELSE -1 - ((a * b) % 2)
      [] k = 3 -> IF {a, b} \in {{1, 2}, {2, 3}} THEN 2 ELSE 0
DataW == [a \in 1..4 |-> [b \in 1..4 |-> [k \in 1..3 |-> R(Weight(a, b, k))]]]
\* "R": a (2, 3, 1) tensor, whose one slice is not square.
DataR == [a \in 1..2 |-> [b \in 1..3 |-> <<R(1)>>]]
GraphFile ==
    [n \in {"__header__", "W", "A", "R"} |->
        CASE n = "__header__" -> [kind |-> "bytes"]
          [] n = "W"          -> NdArray(3, DataW)
          [] n = "A"          -> NdArray(2, DataA)
          [] n = "R"          -> NdArray(3, DataR)]
GraphVarNames == DOMAIN GraphFile \cup {"nope"}
GraphClips ==
    { None, Some(<<R(0), Inf>>), Some(<<R(4), Inf>>), Some(Z2(-9, 0)),
      Some(Z2(2, 1)), Some(Z2(4, 0)) }

\* nx.from_numpy_array(mat): the nodes 1..n and an undirected edge {a, b} (a
\* self-loop {a}) for every nonzero entry (a, b).
Nodes(m) == 1..NRows(m)
Edges(m) ==
    {{p[1], p[2]} : p \in {q \in Nodes(m) \X Nodes(m) : m[q[1]][q[2]] # R(0)}}
\* The nodes reached from those of S.
RECURSIVE Reach(_, _)
Reach(S, E) ==
    LET T == S \cup {b \in UNION E : \E a \in S : {a, b} \in E}
    IN  IF T = S THEN S ELSE Reach(T, E)
\* nx.is_connected(graph), for a graph with a node
is_connected(m) == Reach({1}, Edges(m)) = Nodes(m)
GraphMetrics(m) ==
    [ nnodes |-> Cardinality(Nodes(m)),
      nedges |-> Cardinality(Edges(m)),
      connected |-> is_connected(m) ]

\* The local clip after its default (lines 42-43).
clip == IF args.clip = None THEN <<R(0), Inf>> ELSE Get(args.clip)

\* Lines 35-43.
CheckSanitize ==
    /\ pc = "start"
    /\ \E e \in BOOLEAN,
          n \in {None} \cup {Some(l) : l \in SeqsUpTo(GraphVarNames, MaxNames)},
          c \in GraphClips :
         /\ args' = [filename_exists |-> e, mat_variable_names |-> n, clip |-> c]
         /\ IF e
            THEN /\ pc' = "load"
                 /\ UNCHANGED <<ret, log>>
            ELSE /\ pc' = "returned"
                 /\ ret' = 1
                 /\ Log("error", "no_file")
    /\ UNCHANGED <<files, files0, result, matrices, name_idx, i, mat_avg, exc>>

\* Lines 45-50.
CheckLoad ==
    /\ pc = "load"
    /\ result' = GraphFile
    /\ ret' = 0
    /\ matrices' = <<>>
    /\ name_idx' = 1
    /\ pc' = "read"
    /\ UNCHANGED <<args, files, files0, i, mat_avg, exc, log>>

\* One turn of the loop over mat_variable_names (lines 51-64).
CheckReadVariable ==
    /\ pc = "read"
    /\ name_idx <= Len(mat_variable_names)
    /\ LET name == mat_variable_names[name_idx]
       IN  IF name \notin DOMAIN result
           THEN /\ pc' = "raised"
                /\ exc' = Raised("KeyError", 52)
                /\ UNCHANGED <<matrices, name_idx, ret, log>>
           ELSE LET mat == result[name]
                IN  /\ name_idx' = name_idx + 1
                    /\ UNCHANGED <<pc, exc>>
                    /\ IF mat.kind # "ndarray"
                       THEN /\ ret' = 1
                            /\ Log("error", "not_ndarray")
                            /\ UNCHANGED matrices
                       ELSE IF mat.ndim # 3
                       THEN /\ ret' = 1
                            /\ Log("error", "unsupported_shape")
                            /\ UNCHANGED matrices
                       ELSE /\ matrices' = matrices \o
                                [k \in 1..Shape3(mat.data)[3] |-> View(name, "last", k)]
                            /\ Log("info", "read")
                            /\ UNCHANGED ret
    /\ UNCHANGED <<args, files, files0, result, i, mat_avg>>

\* The loop over the matrices starts.
CheckStart ==
    /\ pc = "read"
    /\ name_idx > Len(mat_variable_names)
    /\ pc' = "check"
    /\ i' = 0
    /\ UNCHANGED <<args, files, files0, result, matrices, name_idx, ret, mat_avg, exc, log>>

\* One turn of the loop over the matrices (lines 72-92): the report of the raw
\* graph, then that of the clipped one.  from_numpy_array raises NetworkXError
\* for a matrix that is not square.
CheckMatrix ==
    /\ pc = "check"
    /\ i < Len(matrices)
    /\ LET mat == ReadView(result, matrices[i + 1])
           cmat == NpClip(mat, clip[1], clip[2])
       IN  IF NRows(mat) # NCols(mat)
           THEN /\ pc' = "raised"
                /\ exc' = Raised("NetworkXError", 75)
                /\ UNCHANGED <<i, log>>
           ELSE /\ log' = log \o << <<"info", "raw", i, GraphMetrics(mat)>>,
                                    <<"info", "clipped", i, GraphMetrics(cmat)>> >>
                /\ i' = i + 1
                /\ UNCHANGED <<pc, exc>>
    /\ UNCHANGED <<args, files, files0, result, matrices, name_idx, ret, mat_avg>>

\* Line 96.
CheckReturn ==
    /\ pc = "check"
    /\ i = Len(matrices)
    /\ pc' = "returned"
    /\ UNCHANGED <<args, files, files0, result, matrices, name_idx, ret, i, mat_avg, exc, log>>

NextCheck ==
    CheckSanitize \/ CheckLoad \/ CheckReadVariable \/ CheckStart \/ CheckMatrix
        \/ CheckReturn

SpecCheck == Init /\ [][NextCheck]_vars

Next == Sanitize \/ LoadMat \/ ReadVariable \/ CheckEmpty \/ WriteMatrix \/ Average

Spec == Init /\ [][Next]_vars

\* ==================================================================== claims

Terminated == pc \in {"returned", "raised"}
Loaded == DOMAIN result # {}
\* The calls of dump so far: each one logs "exists" (refused) or "saved".
Attempts == Len(SelectSeq(log, LAMBDA e : e[2] \in {"exists", "saved"}))
BoxValid == RLe(upper_left[1], lower_right[1]) /\ RLe(lower_right[2], upper_left[2])
\* The matrix a serialized "mat" field encodes.
Unserde(f) == [r \in 1..f[2] |-> [c \in 1..f[3] |-> f[1][(c - 1) * f[2] + r][1]]]

\* C1 (as stated): a requested name that the container lacks, or whose value
\* is no ndarray, is a non-fatal error: the run returns a nonzero status, and
\* the matrices of every other requested name are extracted and written.
C1_Lacking(name) == name \notin DOMAIN MatFile \/ MatFile[name].kind # "ndarray"
C1_BadNameIsNonFatal ==
    (/\ Terminated
     /\ Loaded
     /\ \E j \in 1..Len(mat_variable_names) : C1_Lacking(mat_variable_names[j]))
    => /\ pc = "returned"
       /\ ret # 0
       /\ \A j \in 1..Len(mat_variable_names) :
            LET name == mat_variable_names[j]
            IN  (~C1_Lacking(name) /\ MatFile[name].ndim \in {2, 3})
                => \E k \in 1..Len(matrices) :
                     /\ matrices[k].name = name
                     /\ ZeroPad(k - 1, Width(matrices)) \in DOMAIN files

\* C2: one turn of the extraction loop for a rank-3 variable appends its
\* slices, in increasing index order, taken along the axis Axis says.
C2_Values(res, ms) == [j \in 1..Len(ms) |-> ReadView(res, ms[j])]
C2_AlongFirst(t) ==
    [k \in 1..Shape3(t)[1] |-> [r \in 1..Shape3(t)[2] |-> [c \in 1..Shape3(t)[3] |->
        t[k][r][c]]]]
C2_AlongLast(t) ==
    [k \in 1..Shape3(t)[3] |-> [r \in 1..Shape3(t)[1] |-> [c \in 1..Shape3(t)[2] |->
        t[r][c][k]]]]
C2_Rank3Turn ==
    /\ pc = "read"
    /\ name_idx' = name_idx + 1
    /\ result[mat_variable_names[name_idx]].kind = "ndarray"
    /\ result[mat_variable_names[name_idx]].ndim = 3
C2_Tensor == result[mat_variable_names[name_idx]].data
\* C2 (as stated): the slices are taken along the last axis by default and
\* along the first axis with transpose: (a, b, c) yields c matrices of shape
\* (a, b) by default and a matrices of shape (b, c) with transpose.
C2_LastAxisByDefault ==
    [][C2_Rank3Turn =>
         C2_Values(result', matrices') =
             C2_Values(result, matrices) \o
                 (IF args.transpose THEN C2_AlongFirst(C2_Tensor)
                                    ELSE C2_AlongLast(C2_Tensor))]_vars
\* C2 (amended): the slices are taken along the first axis by default and
\* along the last axis with transpose: (a, b, c) yields a matrices of shape
\* (b, c) by default and c matrices of shape (a, b) with transpose.
C2_FirstAxisByDefault ==
    [][C2_Rank3Turn =>
         C2_Values(result', matrices') =
             C2_Values(result, matrices) \o
                 (IF args.transpose THEN C2_AlongLast(C2_Tensor)
                                    ELSE C2_AlongFirst(C2_Tensor))]_vars
\* The (3, 4, 4) tensor has been split, without transpose, into 3 matrices of
\* shape (4, 4), and with transpose into 4 matrices of shape (3, 4).
C2_Witness ==
    /\ pc = "read"
    /\ mat_variable_names = <<"matrices", "matrices">>
    /\ name_idx = 2
    /\ ~args.transpose
    /\ Len(matrices) = 3
    /\ \A j \in 1..3 : Shape(ReadView(result, matrices[j])) = <<4, 4>>

\* C3 (as stated): the run on the one (3, 4, 4) variable, no transforms, the
\* default bounding box, no ceiling and an empty output directory, returns
\* and leaves exactly the files 00, 01 and 02, each a matrix of shape [4, 4].
C3_Scenario ==
    /\ pc # "start"
    /\ args.filename_exists
    /\ args.mat_variable_names = Some(<<"matrices">>)
    /\ args.upper_left = None
    /\ args.lower_right = None
    /\ args.max_escape_radius = None
    /\ DOMAIN files0 = {}
    /\ Bound("transpose") => ~args.transpose
    /\ Bound("clip") =>
         /\ args.clip = None
         /\ ~args.absolute
         /\ args.normalize = None
         /\ ~args.include_average
C3_EndToEnd ==
    (C3_Scenario /\ Terminated)
    => /\ pc = "returned"
       /\ DOMAIN files = {<<"0", "0">>, <<"0", "1">>, <<"0", "2">>}
       /\ \A f \in DOMAIN files :
            /\ files[f].kind = "exhibit"
            /\ files[f].mat[2] = 4
            /\ files[f].mat[3] = 4

\* C4: on an existing input file, inverted x bounds, inverted y bounds or a
\* configured ceiling that is not strictly positive make the run return a
\* nonzero status with the container not loaded, no matrix read and the
\* output directory as it was.
C4_Invalid ==
    \/ RGt(upper_left[1], lower_right[1])
    \/ RLt(upper_left[2], lower_right[2])
    \/ /\ args.max_escape_radius # None
       /\ ~RGt(Get(args.max_escape_radius), R(0))
C4_InvalidConfigRejected ==
    (pc # "start" /\ args.filename_exists /\ C4_Invalid)
    => /\ pc = "returned"
       /\ ret # 0
       /\ ~Loaded
       /\ matrices = <<>>
       /\ files = files0
\* A ceiling of exactly 0 inside a valid bounding box has been rejected.
C4_Witness ==
    /\ pc = "returned"
    /\ args.filename_exists
    /\ BoxValid
    /\ args.max_escape_radius = Some(R(0))
    /\ ret = 1
    /\ ~Loaded

\* C5 (as stated): every record written holds min(estimate, ceiling) with a
\* ceiling configured and the estimate itself with none; so the run on the
\* all-singular (3, 4, 4) variable with no ceiling returns, each of its
\* records holding an infinite escape radius.
C5_Max == IF args.max_escape_radius = None THEN Inf
          ELSE RMul(Get(args.max_escape_radius), Get(args.max_escape_radius))
C5_CeilingIsOptional ==
    /\ \A f \in DOMAIN files :
         (files[f].kind = "exhibit" /\ ~HasNaN(Unserde(files[f].mat)))
         => files[f].escape_radius =
                PyMin(estimate_escape_radius(Unserde(files[f].mat)), C5_Max)
    /\ (/\ Terminated
        /\ args.filename_exists
        /\ BoxValid
        /\ args.max_escape_radius = None
        /\ args.mat_variable_names = Some(<<"matrices">>))
       => /\ pc = "returned"
          /\ \A k \in 0..2 :
               /\ <<Digits[k + 1]>> \in DOMAIN files
               /\ files[<<Digits[k + 1]>>].kind = "exhibit"
               /\ files[<<Digits[k + 1]>>].escape_radius = Inf

\* C6 (as stated): once the write of matrix 0 is refused (its file exists and
\* overwrite is off) the file stays as it was, the status is 1, and the run
\* goes on to return after one write attempt per matrix, and one more for the
\* average record if requested.  (Taken with no normalization, so that every
\* entry stays finite.)
C6_Refused0 ==
    /\ pc \in {"write", "returned", "raised"}
    /\ Bound("overwrite")
    /\ ~args.overwrite
    /\ args.normalize = None
    /\ <<"0">> \in DOMAIN files0
    /\ matrices # <<>>
    /\ Width(matrices) = 1
    /\ i >= 1
C6_RefusalDoesNotStopBatch ==
    C6_Refused0
    => /\ files[<<"0">>] = files0[<<"0">>]
       /\ ret = 1
       /\ Terminated =>
            /\ pc = "returned"
            /\ Attempts = Len(matrices) + (IF args.include_average THEN 1 ELSE 0)

\* C7 (as stated): a normalize option outside {1, 2, inf, fro, nuc, max} ends
\* every run with the fatal error for it, whatever was extracted, and with no
\* file written.
C7_Unknown == Bound("normalize") /\ args.normalize # None
              /\ Get(args.normalize) \notin NormModes
C8_SourceNeverModified == Loaded => result = MatFile

\* C10 (as stated): with include_average not set (and no normalization, so
\* that no entry stops being finite) every extracted collection is written
\* through: the run returns after one write attempt per matrix.
C10_AccumulatorIsInert ==
    (/\ Terminated
     /\ Bound("include_average")
     /\ ~args.include_average
     /\ args.normalize = None
     /\ matrices # <<>>)
    => /\ pc = "returned"
       /\ Attempts = Len(matrices)

\* C9: the reports of check_connected.  Entry j of the log is the report of a
\* raw matrix with 4 nodes whose off-diagonal weights are all nonzero.
C9_Mat(j) == ReadView(result, matrices[log[j][3] + 1])
C9_OffDiag(m) == {p \in Nodes(m) \X Nodes(m) : p[1] # p[2]}
C9_Case(j) ==
    /\ log[j][2] = "raw"
    /\ Shape(C9_Mat(j)) = <<4, 4>>
    /\ \A p \in C9_OffDiag(C9_Mat(j)) : C9_Mat(j)[p[1]][p[2]] # R(0)
C9_FloorExceeds(j) ==
    \A p \in C9_OffDiag(C9_Mat(j)) : RGt(clip[1], C9_Mat(j)[p[1]][p[2]])
C9_Clipped(j) == NpClip(C9_Mat(j), clip[1], clip[2])
\* C9 (as stated): the raw graph is reported with 4 nodes and connected, and
\* when the floor exceeds all off-diagonal weights the clipped variant has all
\* off-diagonal weights 0 and is reported not connected.
C9_ClipFloorDisconnects ==
    \A j \in 1..Len(log) :
        C9_Case(j)
        => /\ log[j][4].nnodes = 4
           /\ log[j][4].connected
           /\ C9_FloorExceeds(j) =>
                /\ \A p \in C9_OffDiag(C9_Mat(j)) : C9_Clipped(j)[p[1]][p[2]] = R(0)
                /\ ~log[j + 1][4].connected
\* C9 (amended): when the floor exceeds all off-diagonal weights the clipped
\* variant has all off-diagonal weights equal to the floor, capped by the clip
\* maximum, and is reported not connected exactly when that value is 0.
C9_FloorValue == NpMinimum(clip[1], clip[2])
C9_ClipFloorRaises ==
    \A j \in 1..Len(log) :
        C9_Case(j)
        => /\ log[j][4].nnodes = 4
           /\ log[j][4].connected
           /\ C9_FloorExceeds(j) =>
                /\ \A p \in C9_OffDiag(C9_Mat(j)) :
                     C9_Clipped(j)[p[1]][p[2]] = C9_FloorValue
                /\ log[j + 1][2] = "clipped"
                /\ log[j + 1][4].nnodes = 4
                /\ log[j + 1][4].connected = (C9_FloorValue # R(0))
\* Both cases have been reported: a floor of 4 above positive weights leaves the
\* graph connected, the default floor 0 above negative weights disconnects it.
C9_Witness ==
    /\ pc = "returned"
    /\ \E j \in 1..Len(log) :
         /\ C9_Case(j)
         /\ C9_FloorExceeds(j)
         /\ clip[1] = R(4)
         /\ log[j + 1][4].connected

====
